---- MODULE Spec2Model ----
(***************************************************************************)
(* AnacondaMlFlowClient (src/src/anaconda/mlflow/tracking/sdk/client.py):  *)
(* the paged searches get_experiments, get_experiment_runs and             *)
(* get_registered_models, the single search get_model_versions and the     *)
(* three model loaders, run against a wrapped MlflowClient and a model     *)
(* loader that answer nondeterministically (a page of items with a token,  *)
(* or an error).                                                           *)
(*                                                                         *)
(* Python values: an Optional[str] is a sequence of at most one string     *)
(* (None is <<>>, the string s is <<s>>), so that None, "" and "None" are  *)
(* three different values.  A list is a sequence.  A PagedList is a record *)
(* of its items and its token.                                             *)
(***************************************************************************)
EXTENDS Integers, Sequences, FiniteSets

VARIABLES
    callers,          \* the threads that call the client in this run
    bounded,          \* TRUE: the server has at most MaxPages pages per search
    environ,          \* the process environment: variable name -> Optional[str]
    factory,          \* where build_mlflow_client stands: "start", "built", "raised"
    build_error,      \* the error build_mlflow_client raised
    client,           \* AnacondaMlFlowClient.client: the wrapped MlflowClient, None before it is built
    pc,               \* per thread: where its call stands
    earlier,          \* per thread: how each of its earlier calls ended, in order
    op,               \* per thread: the method it called
    filter_string,    \* per thread: argument filter_string
    experiment_id,    \* per thread: argument experiment_id
    name,             \* per thread: argument name / model_name
    version,          \* per thread: argument version
    stage,            \* per thread: argument stage
    logged_model_rui, \* per thread: argument of load_model_by_run
    page_token,       \* per thread: local page_token
    halt_paging,      \* per thread: local halt_paging
    results,          \* per thread: local accumulator (experiments / results / models)
    reported,         \* per thread: local reported_* (the latest page), None before it
    result,           \* per thread: what the call returned
    error,            \* per thread: the error the call raised
    calls,            \* per thread: the search requests its call made, in order
    pages,            \* per thread: the pages returned to those requests, in order
    raised,           \* per thread: the error the wrapped client or loader raised
    loader_calls,     \* per thread: the model_uri of each mlflow.pyfunc.load_model call
    loader_returns    \* per thread: what each of those calls returned

vars == <<callers, bounded, environ, factory, build_error, client, pc, earlier, op, filter_string, experiment_id, name, version,
          stage, logged_model_rui, page_token, halt_paging, results, reported,
          result, error, calls, pages, raised, loader_calls, loader_returns>>

locals == <<page_token, halt_paging, results, reported>>
args == <<filter_string, experiment_id, name, version, stage, logged_model_rui>>
logs == <<calls, pages, raised, loader_calls, loader_returns>>
\* what no step of a call assigns: the run's set-up, the environment, the
\* factory's outcome and the attribute self.client
config == <<callers, bounded, environ, factory, build_error, client>>

----------------------------------------------------------------------------
(* Bounds and input sets *)

\* The most page requests of one call that the logs record; a bounded
\* server ends its paging (token None) at the latest on page MaxPages.
MaxPages == 3

\* The most calls one thread makes, one after the other.
MaxInvocations == 2

Threads == {1, 2}

None == <<>>
Some(s) == <<s>>

Tokens == {None, Some(""), Some("token"), Some("token2")}
PageItems == {<<>>, <<"A">>, <<"B", "A">>}
Filters == {None, Some("f")}
ExperimentIds == {"1", "2"}
Names == {"m", "a/b"}
Versions == {3, 12}
Stages == {"Staging", "x/y"}
Models == {"model1", "model2"}
Errors == {"MlflowException", "ConnectionError"}
RunUris == {"runs:/0a1b/model", "models:/m /3"}

EnvNames == {"MLFLOW_TRACKING_URI", "MLFLOW_REGISTRY_URI"}
\* the environments tried: each address is set or missing
Environments ==
    {[n \in EnvNames |-> IF n \in present THEN Some("http://" \o n) ELSE None] :
        present \in SUBSET EnvNames}

Consolidating == {"get_experiments", "get_experiment_runs", "get_registered_models"}
Loaders == {"load_model_by_version", "load_model_by_run", "load_model_by_stage"}

----------------------------------------------------------------------------
(* Values *)

PagedList(items, token) == [items |-> items, token |-> token]

NoResult == [kind |-> "none", items |-> <<>>, token |-> None, model |-> ""]
ListResult(items) == [kind |-> "list", items |-> items, token |-> None, model |-> ""]
PagedResult(page) == [kind |-> "PagedList", items |-> page.items, token |-> page.token, model |-> ""]
ModelResult(m) == [kind |-> "model", items |-> <<>>, token |-> None, model |-> m]

\* the slip "experiments = reported_experiments": the page replaces the accumulator
PagedListAssign(acc, page) == PagedList(page.items, acc.token)

\* experiments += reported_experiments: list.__iadd__ extends the
\* accumulator in place with the page's items; its own token stays None.
PagedListIAdd(acc, page) == PagedList(acc.items \o page.items, acc.token)

\* list(experiments)
ToList(acc) == acc.items

\* str(n) of a non-negative int, as an f-string formats it
Digit(d) ==
    CASE d = 0 -> "0" [] d = 1 -> "1" [] d = 2 -> "2" [] d = 3 -> "3"
      [] d = 4 -> "4" [] d = 5 -> "5" [] d = 6 -> "6" [] d = 7 -> "7"
      [] d = 8 -> "8" [] d = 9 -> "9"

RECURSIVE IntToStr(_)
IntToStr(n) == IF n < 10 THEN Digit(n) ELSE IntToStr(n \div 10) \o Digit(n % 10)

----------------------------------------------------------------------------
(* The wrapped client's search methods, as the keyword arguments each call *)
(* passes.  kwargs lists the keywords passed; a keyword not passed is None. *)

SearchCall(fn, kwargs, token, filter, ids) ==
    [fn |-> fn, kwargs |-> kwargs, page_token |-> token,
     filter_string |-> filter, experiment_ids |-> ids]

\* self.client.search_experiments(page_token=page_token, filter_string=filter_string)
search_experiments(token, filter) ==
    SearchCall("search_experiments", {"page_token", "filter_string"}, token, filter, <<>>)

\* the slip of sending the criteria with the first request only
search_runs_token_only(id, token, filter) ==
    IF token = None
    THEN SearchCall("search_runs", {"experiment_ids", "page_token", "filter_string"},
                    token, filter, <<id>>)
    ELSE SearchCall("search_runs", {"page_token"}, token, None, <<>>)

\* self.client.search_runs(experiment_ids=[experiment_id], page_token=page_token,
\*                         filter_string=filter_string)
search_runs(id, token, filter) ==
    SearchCall("search_runs", {"experiment_ids", "page_token", "filter_string"},
               token, filter, <<id>>)

\* the slip of a copied loop: get_registered_models calls self.client.search_experiments
search_experiments_for_models(token, filter) ==
    SearchCall("search_experiments", {"page_token", "filter_string"}, token, filter, <<>>)

\* self.client.search_registered_models(page_token=page_token, filter_string=filter_string)
search_registered_models(token, filter) ==
    SearchCall("search_registered_models", {"page_token", "filter_string"}, token, filter, <<>>)

\* the slip of leaving the quotes out of the filter: f"name={model_name}"
search_model_versions_unquoted(model_name) ==
    SearchCall("search_model_versions", {"filter_string"}, None,
               Some("name=" \o model_name), <<>>)

\* self.client.search_model_versions(filter_string=f"name='{model_name}'")
search_model_versions(model_name) ==
    SearchCall("search_model_versions", {"filter_string"}, None,
               Some("name='" \o model_name \o "'"), <<>>)

\* if reported_experiments.token is not None
experiments_more(token) == token # None

\* the run test written as a truth test: "if reported_runs.token:"
runs_more_truthy(token) == token # None /\ token # Some("")

\* if reported_runs.token is not None
runs_more(token) == token # None

\* the registered-model test written like the other two
registered_models_more_not_none(token) == token # None

\* if reported_models.token is not None and reported_models.token != ""
registered_models_more(token) == token # None /\ token # Some("")

\* the loop's test of the page's token, by method
MorePages(method, token) ==
    CASE method = "get_experiments" -> experiments_more(token)
      [] method = "get_experiment_runs" -> runs_more(token)
      [] method = "get_registered_models" -> registered_models_more(token)

\* the slip of setting page_token only while it is still None
FirstPageToken(method, current, token) ==
    IF MorePages(method, token) /\ current = None THEN token ELSE current

\* if <more pages>: page_token = reported.token
NextPageToken(method, current, token) ==
    IF MorePages(method, token) THEN token ELSE current

\* the slip of leaving out the else branch: halt_paging is never set
NeverHaltPaging(method, current, token) == current

\* the slip of halting only once a page comes back empty
HaltOnEmptyToken(method, current, token) ==
    IF token = Some("") THEN TRUE ELSE current

\* else: halt_paging = True
NextHaltPaging(method, current, token) ==
    IF MorePages(method, token) THEN current ELSE TRUE

\* the slip of keeping page_token on the shared client object: a request
\* carries the token another call stored there, when there is one
RequestWithSharedToken(t) ==
    LET others == {u \in Threads \ {t} : page_token[u] # None}
        token == IF others = {} THEN page_token[t]
                 ELSE page_token[CHOOSE u \in others : TRUE]
    IN  CASE op[t] = "get_experiments" -> search_experiments(token, filter_string[t])
          [] op[t] = "get_experiment_runs" ->
                search_runs(experiment_id[t], token, filter_string[t])
          [] op[t] = "get_registered_models" ->
                search_registered_models(token, filter_string[t])
          [] op[t] = "get_model_versions" -> search_model_versions(name[t])

\* the request a thread's next search call makes
Request(t) ==
    CASE op[t] = "get_experiments" -> search_experiments(page_token[t], filter_string[t])
      [] op[t] = "get_experiment_runs" ->
            search_runs(experiment_id[t], page_token[t], filter_string[t])
      [] op[t] = "get_registered_models" ->
            search_registered_models(page_token[t], filter_string[t])
      [] op[t] = "get_model_versions" -> search_model_versions(name[t])

\* the slip of formatting the URI as a path below models:/ with a trailing slash
version_uri_trailing(model, v) == "models:/" \o model \o "/" \o IntToStr(v) \o "/"

\* model_uri: str = f"models:/{name}/{version}"
version_uri(model, v) == "models:/" \o model \o "/" \o IntToStr(v)

\* model_uri: str = f"models:/{name}/{stage}"
stage_uri(model, st) == "models:/" \o model \o "/" \o st

----------------------------------------------------------------------------
(* build_mlflow_client (src/src/anaconda/mlflow/tracking/sdk/factory.py) *)

\* demand_env_var(name=...) of anaconda.enterprise.server.common.sdk: the
\* variable's value, or an error when the environment does not hold it
demand_env_var(n) ==
    IF environ[n] = None
    THEN [raises |-> TRUE, value |-> ""]
    ELSE [raises |-> FALSE, value |-> environ[n][1]]

\* MlflowClient(tracking_uri=..., registry_uri=...)
MlflowClient(tracking_uri, registry_uri) ==
    [tracking_uri |-> tracking_uri, registry_uri |-> registry_uri]

\* tracking_uri=demand_env_var(name="MLFLOW_TRACKING_URI")
TrackingVar == "MLFLOW_TRACKING_URI"

\* the slip of a copied line: registry_uri=demand_env_var(name="MLFLOW_TRACKING_URI")
RegistryVarCopied == "MLFLOW_TRACKING_URI"

\* registry_uri=demand_env_var(name="MLFLOW_REGISTRY_URI")
RegistryVar == "MLFLOW_REGISTRY_URI"

----------------------------------------------------------------------------
(* The logs keep the first MaxPages requests and pages of a call.  A       *)
(* bounded server never answers more; an unbounded one may, and what lies  *)
(* beyond the window is not recorded.                                      *)

InWindow(log) == Len(log) < MaxPages
Record(log, e) == IF InWindow(log) THEN Append(log, e) ELSE log

\* with several callers at once, each is answered with pages of its own:
\* one item and one token that no other caller is given
Concurrent == Cardinality(callers) > 1
OwnToken(t) == IF t = 1 THEN "token" ELSE "token2"
OwnItem(t) == IF t = 1 THEN "A" ELSE "B"

\* the tokens the server may put on the page it returns to thread t
ServerTokens(t) ==
    IF bounded /\ Len(calls[t]) >= MaxPages THEN {None}
    ELSE IF Concurrent THEN {None, Some(OwnToken(t))}
    ELSE Tokens
\* the items it may put on it; an unbounded server is tried with one-item
\* pages only, so that its endless pagings stay few
ServerItems == IF bounded THEN PageItems ELSE {<<"A">>}
ServerPages(t) ==
    {PagedList(i, k) : i \in IF Concurrent THEN {<<OwnItem(t)>>} ELSE ServerItems,
                       k \in ServerTokens(t)}

----------------------------------------------------------------------------
(* Initial state: no call made yet *)

InitThreads ==
    /\ pc = [t \in Threads |-> "idle"]
    /\ earlier = [t \in Threads |-> <<>>]
    /\ op = [t \in Threads |-> "none"]
    /\ filter_string = [t \in Threads |-> None]
    /\ experiment_id = [t \in Threads |-> ""]
    /\ name = [t \in Threads |-> ""]
    /\ version = [t \in Threads |-> 0]
    /\ stage = [t \in Threads |-> ""]
    /\ logged_model_rui = [t \in Threads |-> ""]
    /\ page_token = [t \in Threads |-> None]
    /\ halt_paging = [t \in Threads |-> FALSE]
    /\ results = [t \in Threads |-> PagedList(<<>>, None)]
    /\ reported = [t \in Threads |-> None]
    /\ result = [t \in Threads |-> NoResult]
    /\ error = [t \in Threads |-> None]
    /\ calls = [t \in Threads |-> <<>>]
    /\ pages = [t \in Threads |-> <<>>]
    /\ raised = [t \in Threads |-> None]
    /\ loader_calls = [t \in Threads |-> <<>>]
    /\ loader_returns = [t \in Threads |-> <<>>]

\* no client built yet, in one of the environments
InitFactory ==
    /\ environ \in Environments
    /\ factory = "start"
    /\ build_error = None
    /\ client = None

Init ==
    /\ callers = {1}
    /\ bounded = TRUE
    /\ InitFactory
    /\ InitThreads

----------------------------------------------------------------------------
(* The factory.  Both arguments are evaluated, the tracking address first, *)
(* before MlflowClient is called; an error of demand_env_var leaves the    *)
(* function at once.  The searches below go through the client it built    *)
(* (AnacondaMlFlowClient(client=build_mlflow_client())).                   *)

build_mlflow_client ==
    /\ factory = "start"
    /\ LET tracking == demand_env_var(TrackingVar)
           registry == demand_env_var(RegistryVar)
       IN  IF tracking.raises \/ registry.raises
           THEN /\ factory' = "raised"
                /\ build_error' = Some(IF tracking.raises THEN TrackingVar ELSE RegistryVar)
                /\ UNCHANGED client
           ELSE /\ factory' = "built"
                /\ client' = Some(MlflowClient(tracking.value, registry.value))
                /\ UNCHANGED build_error
    /\ UNCHANGED <<callers, bounded, environ, pc, earlier, op, args, locals, result,
                   error, logs>>

----------------------------------------------------------------------------
(* Method entries: the arguments are bound and the locals initialised.     *)
(* A thread calls when it has no call under way: its first call, or, while *)
(* it is the only caller, a further one after a call that returned or      *)
(* raised.  What is recorded of a call (its requests, pages, result and    *)
(* error) is recorded afresh for each call; arguments and locals that the  *)
(* method called does not have are left at their initial values.           *)

NewCall(t) ==
    /\ t \in callers
    /\ \/ pc[t] = "idle"
       \/ /\ pc[t] \in {"returned", "raised"}
          /\ callers = {t}
          /\ Len(earlier[t]) + 1 < MaxInvocations
    /\ earlier' = [earlier EXCEPT ![t] =
            IF pc[t] = "idle" THEN earlier[t] ELSE Append(earlier[t], pc[t])]
    /\ result' = [result EXCEPT ![t] = NoResult]
    /\ error' = [error EXCEPT ![t] = None]
    /\ calls' = [calls EXCEPT ![t] = <<>>]
    /\ pages' = [pages EXCEPT ![t] = <<>>]
    /\ raised' = [raised EXCEPT ![t] = None]
    /\ loader_calls' = [loader_calls EXCEPT ![t] = <<>>]
    /\ loader_returns' = [loader_returns EXCEPT ![t] = <<>>]

\* the slip of keeping the accumulator and the token on the client object,
\* where they outlive the call, and initialising only the flag
StaleLocals(t) ==
    /\ halt_paging' = [halt_paging EXCEPT ![t] = FALSE]
    /\ reported' = [reported EXCEPT ![t] = None]
    /\ UNCHANGED <<results, page_token>>

\* experiments = PagedList(items=[], token=None); halt_paging = False; page_token = None
FreshLocals(t) ==
    /\ results' = [results EXCEPT ![t] = PagedList(<<>>, None)]
    /\ halt_paging' = [halt_paging EXCEPT ![t] = FALSE]
    /\ page_token' = [page_token EXCEPT ![t] = None]
    /\ reported' = [reported EXCEPT ![t] = None]

\* the arguments of the method called
Bind(t, filter, id, model, v, st, uri) ==
    /\ filter_string' = [filter_string EXCEPT ![t] = filter]
    /\ experiment_id' = [experiment_id EXCEPT ![t] = id]
    /\ name' = [name EXCEPT ![t] = model]
    /\ version' = [version EXCEPT ![t] = v]
    /\ stage' = [stage EXCEPT ![t] = st]
    /\ logged_model_rui' = [logged_model_rui EXCEPT ![t] = uri]

EnterPaging(t, method, filter, id) ==
    /\ client # None
    /\ NewCall(t)
    /\ pc' = [pc EXCEPT ![t] = "loop"]
    /\ op' = [op EXCEPT ![t] = method]
    /\ Bind(t, filter, id, "", 0, "", "")
    /\ FreshLocals(t)
    /\ UNCHANGED config

get_experiments(t) ==
    \E filter \in Filters : EnterPaging(t, "get_experiments", filter, "")

get_experiment_runs(t) ==
    \E id \in ExperimentIds, filter \in Filters :
        EnterPaging(t, "get_experiment_runs", filter, id)

get_registered_models(t) ==
    \E filter \in Filters : EnterPaging(t, "get_registered_models", filter, "")

get_model_versions(t) ==
    /\ client # None
    /\ NewCall(t)
    /\ \E model_name \in Names : Bind(t, None, "", model_name, 0, "", "")
    /\ pc' = [pc EXCEPT ![t] = "search"]
    /\ op' = [op EXCEPT ![t] = "get_model_versions"]
    /\ FreshLocals(t)
    /\ UNCHANGED config

\* a loader's entry; uri is what load_model_by_run is called with
EnterLoad(t, method, model, v, st, uri) ==
    /\ NewCall(t)
    /\ pc' = [pc EXCEPT ![t] = "load"]
    /\ op' = [op EXCEPT ![t] = method]
    /\ Bind(t, None, "", model, v, st, uri)
    /\ FreshLocals(t)
    /\ UNCHANGED config

load_model_by_version(t) ==
    \E model \in Names, v \in Versions :
        EnterLoad(t, "load_model_by_version", model, v, "", version_uri(model, v))

load_model_by_stage(t) ==
    \E model \in Names, st \in Stages :
        EnterLoad(t, "load_model_by_stage", model, 0, st, stage_uri(model, st))

load_model_by_run(t) ==
    \E uri \in RunUris : EnterLoad(t, "load_model_by_run", "", 0, "", uri)

----------------------------------------------------------------------------
(* Steps of a call *)

\* while not halt_paging: self.client.search_*(...) is called
\* (get_model_versions: its one search call)
Search(t) ==
    /\ \/ pc[t] = "loop" /\ ~halt_paging[t]
       \/ pc[t] = "search"
    /\ calls' = [calls EXCEPT ![t] = Record(calls[t], Request(t))]
    /\ pc' = [pc EXCEPT ![t] = "waiting"]
    /\ UNCHANGED <<earlier, op, args, locals, result, error, pages, raised, loader_calls,
                   loader_returns, config>>

\* the search returns a page to a paging loop: the token is tested, the
\* page's items are added to the accumulator
PageReturned(t) ==
    /\ pc[t] = "waiting"
    /\ op[t] \in Consolidating
    /\ \E page \in ServerPages(t) :
        /\ reported' = [reported EXCEPT ![t] = Some(page)]
        /\ page_token' = [page_token EXCEPT ![t] =
                NextPageToken(op[t], page_token[t], page.token)]
        /\ halt_paging' = [halt_paging EXCEPT ![t] =
                NextHaltPaging(op[t], halt_paging[t], page.token)]
        /\ results' = [results EXCEPT ![t] =
                IF InWindow(pages[t]) THEN PagedListIAdd(results[t], page) ELSE results[t]]
        /\ pages' = [pages EXCEPT ![t] = Record(pages[t], page)]
    /\ pc' = [pc EXCEPT ![t] = "loop"]
    /\ UNCHANGED <<earlier, op, args, result, error, calls, raised, loader_calls, loader_returns,
                   config>>

\* the loop has ended: return list(experiments)
ReturnList(t) ==
    /\ pc[t] = "loop"
    /\ halt_paging[t]
    /\ result' = [result EXCEPT ![t] = ListResult(ToList(results[t]))]
    /\ pc' = [pc EXCEPT ![t] = "returned"]
    /\ UNCHANGED <<earlier, op, args, locals, error, logs, config>>

\* get_model_versions: return self.client.search_model_versions(...)
VersionsReturned(t) ==
    /\ pc[t] = "waiting"
    /\ op[t] = "get_model_versions"
    /\ \E page \in ServerPages(t) :
        /\ pages' = [pages EXCEPT ![t] = Record(pages[t], page)]
        /\ result' = [result EXCEPT ![t] = PagedResult(page)]
    /\ pc' = [pc EXCEPT ![t] = "returned"]
    /\ UNCHANGED <<earlier, op, args, locals, error, calls, raised, loader_calls, loader_returns,
                   config>>

\* the slip of catching the error and returning what was gathered so far
ReturnPartial(t, e) ==
    /\ result' = [result EXCEPT ![t] = ListResult(ToList(results[t]))]
    /\ pc' = [pc EXCEPT ![t] = "returned"]
    /\ UNCHANGED error

\* what a call does with an error raised under it: nothing catches it
Propagate(t, e) ==
    /\ error' = [error EXCEPT ![t] = Some(e)]
    /\ pc' = [pc EXCEPT ![t] = "raised"]
    /\ UNCHANGED result

\* the search raises
SearchRaised(t) ==
    /\ pc[t] = "waiting"
    /\ \E e \in Errors :
        /\ raised' = [raised EXCEPT ![t] = Some(e)]
        /\ Propagate(t, e)
    /\ UNCHANGED <<earlier, op, args, locals, calls, pages, loader_calls, loader_returns, config>>

\* load_model_by_run: mlflow.pyfunc.load_model(model_uri=logged_model_rui) is called
Load(t) ==
    /\ pc[t] = "load"
    /\ loader_calls' = [loader_calls EXCEPT ![t] = Append(loader_calls[t], logged_model_rui[t])]
    /\ pc' = [pc EXCEPT ![t] = "loading"]
    /\ UNCHANGED <<earlier, op, args, locals, result, error, calls, pages, raised, loader_returns,
                   config>>

\* the loader returns a model, which the method returns
ModelLoaded(t) ==
    /\ pc[t] = "loading"
    /\ \E m \in Models :
        /\ loader_returns' = [loader_returns EXCEPT ![t] = Append(loader_returns[t], m)]
        /\ result' = [result EXCEPT ![t] = ModelResult(m)]
    /\ pc' = [pc EXCEPT ![t] = "returned"]
    /\ UNCHANGED <<earlier, op, args, locals, error, calls, pages, raised, loader_calls, config>>

\* the loader raises
LoadRaised(t) ==
    /\ pc[t] = "loading"
    /\ \E e \in Errors :
        /\ raised' = [raised EXCEPT ![t] = Some(e)]
        /\ Propagate(t, e)
    /\ UNCHANGED <<earlier, op, args, locals, calls, pages, loader_calls, loader_returns, config>>

----------------------------------------------------------------------------
Next ==
    \/ build_mlflow_client
    \/ \E t \in Threads :
        \/ get_experiments(t)
        \/ get_experiment_runs(t)
        \/ get_registered_models(t)
        \/ get_model_versions(t)
        \/ load_model_by_version(t)
        \/ load_model_by_stage(t)
        \/ load_model_by_run(t)
        \/ Search(t)
        \/ PageReturned(t)
        \/ ReturnList(t)
        \/ VersionsReturned(t)
        \/ SearchRaised(t)
        \/ Load(t)
        \/ ModelLoaded(t)
        \/ LoadRaised(t)

Spec == Init /\ [][Next]_vars

----------------------------------------------------------------------------
(* A second specification: the server is not bounded, it may put a token   *)
(* on every page for ever.  Every step of a call that is under way is      *)
(* taken eventually: the call is synchronous, and each request it makes    *)
(* returns a page or raises.                                               *)

InitLive ==
    /\ callers = {1}
    /\ bounded = FALSE
    /\ InitFactory
    /\ InitThreads

Progress(t) ==
    \/ Search(t)
    \/ PageReturned(t)
    \/ ReturnList(t)
    \/ VersionsReturned(t)
    \/ SearchRaised(t)
    \/ Load(t)
    \/ ModelLoaded(t)
    \/ LoadRaised(t)

\* A third specification: both threads call the one client, one call each,
\* their steps interleaved in every order.
InitConc ==
    /\ callers = Threads
    /\ bounded = TRUE
    /\ InitFactory
    /\ InitThreads

ConcSpec == InitConc /\ [][Next]_vars

LiveSpec == InitLive /\ [][Next]_vars /\ \A t \in Threads : WF_vars(Progress(t))

----------------------------------------------------------------------------
(* Properties *)

Done(t) == pc[t] \in {"returned", "raised"}

RECURSIVE Flatten(_)
Flatten(ps) == IF ps = <<>> THEN <<>> ELSE Head(ps).items \o Flatten(Tail(ps))

\* C1: a consolidating search that has returned returns a list that is the
\* concatenation of the items of every page it was given, in the order the
\* pages were fetched, the last page included, nothing dropped, duplicated,
\* de-duplicated or reordered.
C1_ResultIsConcatenation ==
    \A t \in Threads :
        (op[t] \in Consolidating /\ pc[t] = "returned") =>
            /\ Len(pages[t]) >= 1
            /\ result[t].kind = "list"
            /\ result[t].items = Flatten(pages[t])

\* three pages, the same item on two of them, the last page not empty
C1_Witness ==
    \E t \in Threads :
        /\ op[t] = "get_experiments"
        /\ pc[t] = "returned"
        /\ Len(pages[t]) = 3
        /\ result[t].items = <<"B", "A", "A", "B", "A">>

\* C2: the first page request of a consolidating search carries no token
\* (None), and every later request carries the token of the page returned
\* just before it.
C2_TokenOfPreviousPage ==
    \A t \in Threads :
        op[t] \in Consolidating =>
            /\ Len(pages[t]) <= Len(calls[t])
            /\ \A i \in 1..Len(calls[t]) :
                calls[t][i].page_token = IF i = 1 THEN None ELSE pages[t][i - 1].token

\* a third request, after two pages with different tokens
C2_Witness ==
    \E t \in Threads :
        /\ op[t] = "get_experiment_runs"
        /\ Len(calls[t]) = 3
        /\ pages[t][1].token = Some("token")
        /\ pages[t][2].token = Some("token2")
        /\ calls[t][3].page_token = Some("token2")

\* C3: a consolidating search makes no page request after the first page
\* whose token is None: the number of its search calls is that page's position.
C3_StopsAtAbsentToken ==
    \A t \in Threads :
        op[t] \in Consolidating =>
            \A i \in 1..Len(pages[t]) :
                pages[t][i].token = None =>
                    /\ Len(calls[t]) = i
                    /\ Len(pages[t]) = i
                    /\ pc[t] \in {"loop", "returned"}
                    /\ halt_paging[t]

\* returned after two calls, only the second page without a token
C3_Witness ==
    \E t \in Threads :
        /\ op[t] \in Consolidating
        /\ pc[t] = "returned"
        /\ Len(calls[t]) = 2
        /\ pages[t][1].token # None
        /\ pages[t][2].token = None

\* a page's token that announces a further page, as the specification states it:
\* present, and for the registered-model search also not empty
Announces(method, token) ==
    /\ token # None
    /\ method = "get_registered_models" => token # Some("")

\* the latest page of thread t's call announces a further page
TokenPending(t) ==
    /\ op[t] \in Consolidating
    /\ pc[t] = "loop"
    /\ reported[t] # None
    /\ Announces(op[t], reported[t][1].token)

\* C4 as stated: every call that was made eventually returns or raises,
\* whatever pages the search returns.
C4_EveryCallHalts ==
    \A t \in Threads : (pc[t] # "idle") ~> Done(t)

\* C4 amended: a call that was made eventually returns or raises, or is
\* handed yet another page whose token announces a further page: it halts
\* unless the search announces further pages for ever.
C4_HaltsUnlessTokensForEver ==
    \A t \in Threads : (pc[t] # "idle") ~> (Done(t) \/ TokenPending(t))

\* a registered-model search that returned on an empty token after more
\* pages than the logs record
C4_Witness ==
    \E t \in Threads :
        /\ op[t] = "get_registered_models"
        /\ pc[t] = "returned"
        /\ Len(calls[t]) = MaxPages
        /\ reported[t] # None
        /\ reported[t][1].token = Some("")
        /\ pages[t][Len(pages[t])].token = Some("token2")

\* C5: get_model_versions follows the token like the three consolidating
\* searches: when it returns, the last page it was given has no token, and it
\* returns the items of every page.
C5_ModelVersionsFollowsToken ==
    \A t \in Threads :
        (op[t] = "get_model_versions" /\ pc[t] = "returned") =>
            /\ pages[t][Len(pages[t])].token = None
            /\ result[t].items = Flatten(pages[t])

\* C6: in get_registered_models a page whose token is "" ends the paging as a
\* page without a token does: no request follows it, its items are in the
\* accumulator and in the list returned.
C6_EmptyTokenEndsRegisteredModels ==
    \A t \in Threads :
        op[t] = "get_registered_models" =>
            \A i \in 1..Len(pages[t]) :
                pages[t][i].token \in {Some(""), None} =>
                    /\ Len(calls[t]) = i
                    /\ Len(pages[t]) = i
                    /\ halt_paging[t]
                    /\ pc[t] \in {"loop", "returned"}
                    /\ ToList(results[t]) = Flatten(pages[t])
                    /\ pc[t] = "returned" => result[t] = ListResult(Flatten(pages[t]))

\* returned after a second page with token "" and items
C6_Witness ==
    \E t \in Threads :
        /\ op[t] = "get_registered_models"
        /\ pc[t] = "returned"
        /\ Len(calls[t]) = 2
        /\ pages[t][2] = PagedList(<<"B", "A">>, Some(""))
        /\ result[t].items = <<"A", "B", "A">>

\* C7: in get_experiments and get_experiment_runs a page whose token is ""
\* does not end the paging: the loop goes on, and the next request carries
\* "" as its token.
C7_EmptyTokenContinuesElsewhere ==
    \A t \in Threads :
        op[t] \in {"get_experiments", "get_experiment_runs"} =>
            \A i \in 1..Len(pages[t]) :
                pages[t][i].token = Some("") =>
                    /\ Len(calls[t]) = i =>
                        /\ pc[t] = "loop"
                        /\ ~halt_paging[t]
                        /\ page_token[t] = Some("")
                        /\ ENABLED Search(t)
                    /\ Len(calls[t]) > i => calls[t][i + 1].page_token = Some("")

\* a run search whose second request carries "" after a first page with token ""
C7_Witness ==
    \E t \in Threads :
        /\ op[t] = "get_experiment_runs"
        /\ Len(calls[t]) = 2
        /\ pages[t][1].token = Some("")
        /\ calls[t][2].page_token = Some("")

\* the request with its token taken out
Criteria(call) == [call EXCEPT !.page_token = None]

\* C8: every page request of a consolidating search, the first and the later
\* ones alike, carries the caller's filter string, and for get_experiment_runs
\* the caller's experiment id as the one scoping id; two requests of one call
\* differ in the token only.
C8_CriteriaOnEveryRequest ==
    \A t \in Threads :
        op[t] \in Consolidating =>
            \A i \in 1..Len(calls[t]) :
                /\ "filter_string" \in calls[t][i].kwargs
                /\ calls[t][i].filter_string = filter_string[t]
                /\ op[t] = "get_experiment_runs" =>
                    /\ calls[t][i].fn = "search_runs"
                    /\ "experiment_ids" \in calls[t][i].kwargs
                    /\ calls[t][i].experiment_ids = <<experiment_id[t]>>
                /\ op[t] = "get_experiments" =>
                    /\ calls[t][i].fn = "search_experiments"
                    /\ "experiment_ids" \notin calls[t][i].kwargs
                /\ op[t] = "get_registered_models" =>
                    /\ calls[t][i].fn = "search_registered_models"
                    /\ "experiment_ids" \notin calls[t][i].kwargs
                /\ Criteria(calls[t][i]) = Criteria(calls[t][1])

\* a run search for experiment "2" with a filter, at its third request
C8_Witness ==
    \E t \in Threads :
        /\ op[t] = "get_experiment_runs"
        /\ experiment_id[t] = "2"
        /\ filter_string[t] = Some("f")
        /\ Len(calls[t]) = 3
        /\ calls[t][3].page_token # calls[t][2].page_token
        /\ calls[t][3].experiment_ids = <<"2">>

\* C9: when a page request of a consolidating search raises, the call raises
\* that same error, has made no request after the one that raised, and
\* returns nothing, whatever it had accumulated.
C9_ErrorPropagates ==
    \A t \in Threads :
        (op[t] \in Consolidating /\ raised[t] # None) =>
            /\ pc[t] = "raised"
            /\ error[t] = raised[t]
            /\ result[t] = NoResult
            /\ Len(calls[t]) = Len(pages[t]) + 1

\* the third request raises after two pages with items
C9_Witness ==
    \E t \in Threads :
        /\ op[t] = "get_experiments"
        /\ pc[t] = "raised"
        /\ error[t] = Some("ConnectionError")
        /\ Len(calls[t]) = 3
        /\ ToList(results[t]) = <<"A", "B", "A">>

\* the decimal text of the versions tried
VersionText(v) == CASE v = 3 -> "3" [] v = 12 -> "12" [] OTHER -> "?"

\* the URI is "models:/", the name, "/", the selector, and nothing else
IsModelUri(uri, model, selector) ==
    /\ Len(uri) = 8 + Len(model) + 1 + Len(selector)
    /\ SubSeq(uri, 1, 8) = "models:/"
    /\ SubSeq(uri, 9, 8 + Len(model)) = model
    /\ SubSeq(uri, 9 + Len(model), 9 + Len(model)) = "/"
    /\ SubSeq(uri, 10 + Len(model), Len(uri)) = selector

\* C10: a loader calls mlflow.pyfunc.load_model once, load_model_by_version
\* and load_model_by_stage with models:/<name>/<selector> built from their
\* arguments as they are, load_model_by_run with its argument as it is, and
\* returns what load_model returned.
C10_LoaderCalledOnceWithUri ==
    \A t \in Threads :
        (op[t] \in Loaders /\ pc[t] # "load") =>
            /\ Len(loader_calls[t]) = 1
            /\ calls[t] = <<>>
            /\ op[t] = "load_model_by_version" =>
                IsModelUri(loader_calls[t][1], name[t], VersionText(version[t]))
            /\ op[t] = "load_model_by_stage" =>
                IsModelUri(loader_calls[t][1], name[t], stage[t])
            /\ op[t] = "load_model_by_run" => loader_calls[t][1] \in RunUris
            /\ loader_calls[t][1] = logged_model_rui[t]
            /\ (op[t] = "load_model_by_version" /\ name[t] = "m" /\ version[t] = 3) =>
                loader_calls[t][1] = "models:/m/3"
            /\ (op[t] = "load_model_by_stage" /\ name[t] = "m" /\ stage[t] = "Staging") =>
                loader_calls[t][1] = "models:/m/Staging"
            /\ pc[t] = "returned" =>
                /\ Len(loader_returns[t]) = 1
                /\ result[t] = ModelResult(loader_returns[t][1])

\* version 12 of a model whose name holds a slash, loaded and returned
C10_Witness ==
    \E t \in Threads :
        /\ op[t] = "load_model_by_version"
        /\ pc[t] = "returned"
        /\ loader_calls[t] = <<"models:/a/b/12">>
        /\ result[t].model = "model2"

\* C11: get_model_versions calls search_model_versions once, with the filter
\* string name='<model_name>' and nothing else, and returns the items of the
\* page it is given, in the page's order.
C11_ModelVersionsOfOnePage ==
    \A t \in Threads :
        (op[t] = "get_model_versions" /\ pc[t] \in {"waiting", "returned", "raised"}) =>
            /\ Len(calls[t]) = 1
            /\ calls[t][1].fn = "search_model_versions"
            /\ calls[t][1].kwargs = {"filter_string"}
            /\ Len(calls[t][1].filter_string) = 1
            /\ LET f == calls[t][1].filter_string[1]
               IN  /\ Len(f) = 6 + Len(name[t]) + 1
                   /\ SubSeq(f, 1, 6) = "name='"
                   /\ SubSeq(f, 7, 6 + Len(name[t])) = name[t]
                   /\ SubSeq(f, Len(f), Len(f)) = "'"
                   /\ name[t] = "m" => f = "name='m'"
            /\ pc[t] = "returned" =>
                /\ Len(pages[t]) = 1
                /\ result[t].items = pages[t][1].items

\* the versions of model a/b, a page of two items returned in its order
C11_Witness ==
    \E t \in Threads :
        /\ op[t] = "get_model_versions"
        /\ pc[t] = "returned"
        /\ calls[t][1].filter_string = Some("name='a/b'")
        /\ result[t].items = <<"B", "A">>

\* C12: build_mlflow_client raises when MLFLOW_TRACKING_URI or
\* MLFLOW_REGISTRY_URI is missing from the environment: no client exists then
\* and no search was or will be made through one; with both set it returns a
\* client of exactly these two addresses.
C12_FactoryFailsFast ==
    LET missing == {n \in EnvNames : environ[n] = None}
    IN  /\ factory = "raised" =>
            /\ missing # {}
            /\ build_error # None
            /\ build_error[1] \in missing
            /\ client = None
        /\ factory = "built" =>
            /\ missing = {}
            /\ build_error = None
            /\ client = Some([tracking_uri |-> environ["MLFLOW_TRACKING_URI"][1],
                              registry_uri |-> environ["MLFLOW_REGISTRY_URI"][1]])
        /\ factory = "start" => client = None
        /\ client = None =>
            \A t \in Threads : calls[t] = <<>> /\ op[t] \notin Consolidating \cup {"get_model_versions"}

\* the tracking address is set, the registry address is missing: the factory raised
C12_Witness ==
    /\ factory = "raised"
    /\ environ["MLFLOW_TRACKING_URI"] # None
    /\ environ["MLFLOW_REGISTRY_URI"] = None
    /\ build_error = Some("MLFLOW_REGISTRY_URI")
    /\ client = None

\* C14: a consolidating search made after other calls of the same thread
\* have returned or raised starts like a first one: before its first request
\* the token is None and the accumulator empty, its first request carries no
\* token, and what it accumulates and returns is made of the pages of its
\* own requests only.
C14_NothingKeptAcrossCalls ==
    \A t \in Threads :
        (earlier[t] # <<>> /\ op[t] \in Consolidating) =>
            /\ calls[t] = <<>> =>
                /\ pc[t] = "loop"
                /\ page_token[t] = None
                /\ ~halt_paging[t]
                /\ results[t] = PagedList(<<>>, None)
                /\ reported[t] = None
            /\ calls[t] # <<>> => calls[t][1].page_token = None
            /\ ToList(results[t]) = Flatten(pages[t])
            /\ result[t] \in {NoResult, ListResult(Flatten(pages[t]))}
            /\ pc[t] = "returned" => result[t] = ListResult(Flatten(pages[t]))

\* a second call, after one that raised, returned the two pages it fetched
C14_Witness ==
    \E t \in Threads :
        /\ earlier[t] = <<"raised">>
        /\ op[t] = "get_experiment_runs"
        /\ pc[t] = "returned"
        /\ Len(calls[t]) = 2
        /\ calls[t][2].page_token = Some("token")
        /\ result[t].items = <<"B", "A", "A">>

\* the elements of a sequence
Range(seq) == {seq[i] : i \in 1..Len(seq)}

\* C13: with two calls under way on the one client, their steps interleaved
\* in any order, each consolidating search sends only None and tokens of
\* pages returned to itself, accumulates and returns the concatenation of the
\* pages returned to itself, and holds no token and no item of the other call.
C13_ConcurrentCallsIndependent ==
    \A t \in Threads :
        op[t] \in Consolidating =>
            /\ \A i \in 1..Len(calls[t]) :
                /\ calls[t][i].page_token \in
                        {None} \cup {pages[t][j].token : j \in 1..(i - 1)}
                /\ i > 1 => calls[t][i].page_token # None
            /\ ToList(results[t]) = Flatten(pages[t])
            /\ pc[t] = "returned" => result[t].items = Flatten(pages[t])
            /\ \A u \in Threads \ {t} :
                /\ page_token[t] # Some(OwnToken(u))
                /\ \A i \in 1..Len(calls[t]) : calls[t][i].page_token # Some(OwnToken(u))
                /\ OwnItem(u) \notin Range(results[t].items) \cup Range(result[t].items)

\* both calls wait for their second page at the same time, each having sent
\* the token of its own first page
C13_Witness ==
    /\ op[1] = "get_experiments"
    /\ op[2] = "get_registered_models"
    /\ pc[1] = "waiting"
    /\ pc[2] = "waiting"
    /\ Len(calls[1]) = 2
    /\ Len(calls[2]) = 2
    /\ calls[1][2].page_token = Some("token")
    /\ calls[2][2].page_token = Some("token2")
    /\ results[1].items = <<"A">>
    /\ results[2].items = <<"B">>

\* the search of a consolidating method's own entity kind
OwnSearch(method) ==
    CASE method = "get_experiments" -> "search_experiments"
      [] method = "get_experiment_runs" -> "search_runs"
      [] method = "get_registered_models" -> "search_registered_models"

\* C15: every step leaves a consolidating search with calls of its own
\* search only (search_experiments, search_runs or search_registered_models),
\* at least one once it has returned or raised, and with no call of the model
\* loader; a step taken while such a search is under way leaves the wrapped
\* client as it was.
C15_OnlyOwnSearchCalled ==
    [][\A t \in Threads :
        op'[t] \in Consolidating =>
            /\ \A i \in 1..Len(calls'[t]) : calls'[t][i].fn = OwnSearch(op'[t])
            /\ pc'[t] \in {"returned", "raised"} => Len(calls'[t]) >= 1
            /\ Len(calls'[t]) >= Len(pages'[t])
            /\ loader_calls'[t] = <<>>
            /\ loader_returns'[t] = <<>>
            /\ (op[t] \in Consolidating /\ pc[t] \in {"loop", "waiting"}) =>
                /\ client' = client
                /\ client # None
                /\ loader_calls' = loader_calls
      ]_vars

\* a registered-model search that returned after three calls, after an
\* earlier call of the same thread, and no loader call on record
C15_Witness ==
    \E t \in Threads :
        /\ op[t] = "get_registered_models"
        /\ pc[t] = "returned"
        /\ earlier[t] # <<>>
        /\ Len(calls[t]) = 3
        /\ calls[t][3].fn = "search_registered_models"
        /\ loader_calls[t] = <<>>
        /\ client # None

====
